---- MODULE Spec2Model ----
(***************************************************************************)
(* Host-side dispatch layer of the HIP/CK fused multi-head-attention       *)
(* bindings (xformers/csrc/attention/hip_fmha).                            *)
(*                                                                         *)
(* Four specifications:                                                    *)
(*   Spec      one call at a time into a dispatch entry point             *)
(*             (batched_backward_bp16, batched_backward_fp16, batched      *)
(*             infer Run, grouped forward Run, grouped infer Run); the     *)
(*             state records the parameter struct, the error raised, the   *)
(*             template instantiations invoked and the arguments handed    *)
(*             to the CK kernel.                                           *)
(*   SpecRand  concurrent calls of rand_uniform_int on the default         *)
(*             generator, one statement per step.                          *)
(*   SpecLargeShapes  one call of rand_uniform_int on sizes where the int  *)
(*             arithmetic of the element count overflows.                  *)
(*   SpecFrame the calls of Spec followed by calls of rand_uniform_int by  *)
(*             one thread.                                                 *)
(***************************************************************************)
EXTENDS Integers, Sequences, FiniteSets, TLC

VARIABLES
    \* ---- dispatch layer (Spec) ----
    fn,        \* entry point of the last call, "none" before the first
    tmpl,      \* template arguments of the entry point (a record)
    param,     \* the parameter struct as it is after the call
    param0,    \* the parameter struct as it was passed
    strm0,     \* the hipStream_t passed
    error,     \* what() of the runtime_error raised, NoError otherwise
    invoked,   \* sequence of the template instantiations invoked
    events,    \* sequence of the library calls made by RunWithDeviceOp
    kargs,     \* arguments handed to MakeArgumentPointer / MakeKargs
    launches,  \* sequence of kernel launches (kernel traits, stream)
    \* ---- rand_uniform_int (SpecRand) ----
    pc,        \* statement each thread is at
    shape,     \* out_pattern.size(0..3) of each thread's call
    cur,       \* the current HIP stream of each thread
    stream,    \* local: hipStream_t stream
    rng,       \* local: rng_engine_inputs, <<seed, offset>>
    incr,      \* local: the increment passed to philox_cuda_state
    randvals,  \* local: the tensor allocated, returned at the end
    mutex_,    \* gen->mutex_: 0 when free, else the owning thread
    gen,       \* the default generator: [seed, offset]
    reserved,  \* history: one record per completed philox_cuda_state call
    log,       \* history: per thread, the steps of its current call
    ncalls     \* number of calls started so far

dvars == <<fn, tmpl, param, param0, strm0, error, invoked, events, kargs,
           launches>>
rvars == <<pc, shape, cur, stream, rng, incr, randvals, mutex_, gen, reserved,
           log, ncalls>>
vars  == <<fn, tmpl, param, param0, strm0, error, invoked, events, kargs,
           launches, pc, shape, cur, stream, rng, incr, randvals, mutex_, gen,
           reserved, log, ncalls>>

(***************************************************************************)
(* Bounds of the model.                                                    *)
(***************************************************************************)
MaxMaskType == 3      \* custom_mask_type ranges over -MaxMaskType..MaxMaskType
MaxStride   == 1      \* the smallest stride of a tensor ranges over 1..MaxStride+1
MaxLen      == 2      \* B, num_heads, M, N range over 1..MaxLen
MaxWindow   == 2      \* window_size ranges over -1..MaxWindow
MaxHeads    == 2      \* Hq, Hkv range over 1..MaxHeads
MaxSeed     == 1      \* philox_seed, philox_offset range over 0..MaxSeed
NumThreads  == 2      \* threads calling rand_uniform_int
MaxDim      == 2      \* out_pattern sizes range over 0..MaxDim
MaxCalls    == 2      \* rand_uniform_int calls started in one behaviour

NoError == "no error"
NoParam == [none |-> TRUE]
NoTmpl  == [none |-> TRUE]
NoKargs == [none |-> TRUE]
NoTensor == [none |-> TRUE]
nullptr == "nullptr"

\* Head dimensions around every bucket boundary of the dispatchers.
HeadDims == {1, 32, 33, 64, 65, 128, 129}

MaskTypes == (0 - MaxMaskType)..MaxMaskType

(***************************************************************************)
(* Outcome of a call: the error raised (if any) and what was invoked.      *)
(***************************************************************************)
Throw(msg)   == [error |-> msg, invoked |-> <<>>]
Invoke(inst) == [error |-> NoError, invoked |-> <<inst>>]

(***************************************************************************)
(* ck_fmha_batched_backward_bp16.cpp                                       *)
(***************************************************************************)
BatchedBackwardParamsSet ==
    [custom_mask_type : MaskTypes, has_attn_bias : BOOLEAN,
     bias_has_grad : BOOLEAN, K : HeadDims, Kv : HeadDims]

\* batched_backward_masktype_attnbias_dispatched<scalar_t, m, b>
MasktypeAttnbiasInst(scalar_t, m, b) ==
    [name |-> "batched_backward_masktype_attnbias_dispatched",
     scalar_t |-> scalar_t, custom_mask_type |-> m, has_attn_bias |-> b]

bp16_NoElseThrow(p) ==
    IF p.custom_mask_type = 0 THEN
        IF p.has_attn_bias
        THEN Invoke(MasktypeAttnbiasInst("bhalf_t", 0, TRUE))
        ELSE Invoke(MasktypeAttnbiasInst("bhalf_t", 0, FALSE))
    ELSE IF p.custom_mask_type = 1 THEN
        IF p.has_attn_bias
        THEN Invoke(MasktypeAttnbiasInst("bhalf_t", 1, TRUE))
        ELSE Invoke(MasktypeAttnbiasInst("bhalf_t", 1, FALSE))
    ELSE
        IF p.has_attn_bias
        THEN Invoke(MasktypeAttnbiasInst("bhalf_t", 2, TRUE))
        ELSE Invoke(MasktypeAttnbiasInst("bhalf_t", 2, FALSE))

bp16_SwappedBias(p) ==
    IF p.custom_mask_type = 0 THEN
        IF p.has_attn_bias
        THEN Invoke(MasktypeAttnbiasInst("bhalf_t", 0, TRUE))
        ELSE Invoke(MasktypeAttnbiasInst("bhalf_t", 0, FALSE))
    ELSE IF p.custom_mask_type = 1 THEN
        IF p.has_attn_bias
        THEN Invoke(MasktypeAttnbiasInst("bhalf_t", 1, TRUE))
        ELSE Invoke(MasktypeAttnbiasInst("bhalf_t", 1, FALSE))
    ELSE IF p.custom_mask_type = 2 THEN
        IF p.has_attn_bias
        THEN Invoke(MasktypeAttnbiasInst("bhalf_t", 2, FALSE))
        ELSE Invoke(MasktypeAttnbiasInst("bhalf_t", 2, TRUE))
    ELSE Throw("Invalid custom_mask_type value")

batched_backward_bp16(p) ==
    IF p.custom_mask_type = 0 THEN
        IF p.has_attn_bias
        THEN Invoke(MasktypeAttnbiasInst("bhalf_t", 0, TRUE))
        ELSE Invoke(MasktypeAttnbiasInst("bhalf_t", 0, FALSE))
    ELSE IF p.custom_mask_type = 1 THEN
        IF p.has_attn_bias
        THEN Invoke(MasktypeAttnbiasInst("bhalf_t", 1, TRUE))
        ELSE Invoke(MasktypeAttnbiasInst("bhalf_t", 1, FALSE))
    ELSE IF p.custom_mask_type = 2 THEN
        IF p.has_attn_bias
        THEN Invoke(MasktypeAttnbiasInst("bhalf_t", 2, TRUE))
        ELSE Invoke(MasktypeAttnbiasInst("bhalf_t", 2, FALSE))
    ELSE Throw("Invalid custom_mask_type value")

(***************************************************************************)
(* ck_tiled_fmha_batched_backward_fp16.cpp                                 *)
(***************************************************************************)
\* run_batched_backward_causalmask_attnbias_dispatched<scalar_t, causal,
\* bias, grad, MaxK>
CausalmaskAttnbiasInst(scalar_t, causal, bias, grad, maxk) ==
    [name |-> "run_batched_backward_causalmask_attnbias_dispatched",
     scalar_t |-> scalar_t, has_causal_mask |-> causal,
     has_attn_bias |-> bias, has_bias_grad |-> grad, MaxK |-> maxk]

\* The extern template declarations: six (causal, bias, grad) triples for
\* each of MaxK = 32, 64, 128.
ExternTemplates ==
    { CausalmaskAttnbiasInst("half_t", t[1], t[2], t[3], k) :
        t \in { <<FALSE, TRUE, TRUE>>, <<FALSE, TRUE, FALSE>>,
                <<FALSE, FALSE, FALSE>>, <<TRUE, TRUE, TRUE>>,
                <<TRUE, TRUE, FALSE>>, <<TRUE, FALSE, FALSE>> },
        k \in {32, 64, 128} }

\* FMHA_BWD_HEADDIM_SWITCH (ck_tiled_headdim_switch.h): the head-dimension
\* bucket MaxK for which the body is instantiated; 0 stands for the macro's
\* rejection of head dimensions no declared instantiation covers.
FMHA_BWD_HEADDIM_SWITCH(K, Kv) ==
    IF K <= 32 /\ Kv <= 32 THEN 32
    ELSE IF K <= 64 /\ Kv <= 64 THEN 64
    ELSE IF K <= 128 /\ Kv <= 128 THEN 128
    ELSE 0

\* The body run under FMHA_BWD_HEADDIM_SWITCH (lines 64-80).
fp16_MaskDispatch(p, HAS_ATTN_BIAS, HAS_BIAS_GRAD, MaxK) ==
    IF p.custom_mask_type = 0 THEN
        Invoke(CausalmaskAttnbiasInst("half_t", FALSE, HAS_ATTN_BIAS,
                                      HAS_BIAS_GRAD, MaxK))
    ELSE IF p.custom_mask_type = 1 \/ p.custom_mask_type = 2 THEN
        Invoke(CausalmaskAttnbiasInst("half_t", TRUE, HAS_ATTN_BIAS,
                                      HAS_BIAS_GRAD, MaxK))
    ELSE Throw("Invalid custom_mask_type value")

fp16_HeadDimDispatch(p, HAS_ATTN_BIAS, HAS_BIAS_GRAD) ==
    LET MaxK == FMHA_BWD_HEADDIM_SWITCH(p.K, p.Kv)
    IN  IF MaxK = 0
        THEN Throw("Head-dim sizes not supported!")
        ELSE fp16_MaskDispatch(p, HAS_ATTN_BIAS, HAS_BIAS_GRAD, MaxK)

fp16_NoBiasGradCheck(p) ==
    fp16_HeadDimDispatch(p, p.has_attn_bias, p.bias_has_grad)

fp16_MaskElseCausal(p) ==
    LET MaxK == FMHA_BWD_HEADDIM_SWITCH(p.K, p.Kv)
    IN  IF ~(p.has_attn_bias \/ ~p.bias_has_grad)
        THEN Throw("bias_has_grad should be false when has_attn_bias is false!")
        ELSE IF MaxK = 0 THEN Throw("Head-dim sizes not supported!")
        ELSE IF p.custom_mask_type = 0
        THEN Invoke(CausalmaskAttnbiasInst("half_t", FALSE, p.has_attn_bias,
                                           p.bias_has_grad, MaxK))
        ELSE Invoke(CausalmaskAttnbiasInst("half_t", TRUE, p.has_attn_bias,
                                           p.bias_has_grad, MaxK))

fp16_MaskCheckFirst(p) ==
    IF p.custom_mask_type \notin {0, 1, 2}
    THEN Throw("Invalid custom_mask_type value")
    ELSE IF ~(p.has_attn_bias \/ ~p.bias_has_grad)
    THEN Throw("bias_has_grad should be false when has_attn_bias is false!")
    ELSE fp16_HeadDimDispatch(p, p.has_attn_bias, p.bias_has_grad)

\* BOOL_SWITCH_2 (ck_tiled_bool_switch.h) turns the two runtime flags into
\* the constexpr flags HAS_ATTN_BIAS and HAS_BIAS_GRAD of the body.
batched_backward_fp16(p) ==
    LET HAS_ATTN_BIAS == p.has_attn_bias
        HAS_BIAS_GRAD == p.bias_has_grad
    IN  IF HAS_ATTN_BIAS \/ ~HAS_BIAS_GRAD
        THEN fp16_HeadDimDispatch(p, HAS_ATTN_BIAS, HAS_BIAS_GRAD)
        ELSE Throw("bias_has_grad should be false when has_attn_bias is false!")

(***************************************************************************)
(* ck_fmha_batched_infer.h                                                 *)
(***************************************************************************)
Streams == {"stream0", "stream1"}
Scales  == {1, 2}

\* Stride vectors with four different entries, ascending or descending.
StrideVecs ==
    { <<b + 1, b + 2, b + 3, b + 4>> : b \in 0..MaxStride } \cup
    { <<b + 4, b + 3, b + 2, b + 1>> : b \in 0..MaxStride }

\* The strides of tensor number i: no two tensors of a parameter struct share
\* a stride value.
TensorStrides(s, i) == [j \in 1..4 |-> s[j] + i * (MaxStride + 4)]

\* BatchedForwardParams; x_strides[j] of the code is x_strides[j + 1] here.
BatchedForwardParamsSet ==
    { [B |-> l, num_heads |-> l + 1, M |-> l + 2, N |-> l + 3,
       K |-> k, Kv |-> kv, scale |-> sc, has_attn_bias |-> hb,
       custom_mask_type |-> m,
       q_ptr |-> "q", k_ptr |-> "k", v_ptr |-> "v", out_ptr |-> "out",
       attn_bias_ptr |-> "attn_bias",
       q_strides |-> TensorStrides(s, 0), k_strides |-> TensorStrides(s, 1),
       v_strides |-> TensorStrides(s, 2), out_strides |-> TensorStrides(s, 3),
       attn_bias_strides |-> TensorStrides(s, 4)] :
      l \in 1..MaxLen, k \in HeadDims, kv \in HeadDims, sc \in Scales,
      hb \in BOOLEAN, m \in 0..2, s \in StrideVecs }

BatchedInferTmplSet ==
    [scalar_t : {"half_t"}, custom_mask_type : 0..2,
     has_attn_bias : BOOLEAN]

\* The template arguments the entry points instantiate the dispatcher with:
\* the mask type and the bias flag of the parameter struct, as
\* batched_backward_bp16 picks them for the backward pass.
batched_infer_TemplateArgs(p) ==
    [scalar_t |-> "half_t", custom_mask_type |-> p.custom_mask_type,
     has_attn_bias |-> p.has_attn_bias]

\* DeviceOpInstanceTemp<kGemm1NPerBlock, kGemm1NXdlPerWave,
\* kCShuffleNXdlPerWavePerShuffle> of the instantiation t.
DeviceOpInstanceTemp(t, nPerBlock, nXdlPerWave, cShuffleNXdl) ==
    [name |-> "DeviceBatchedMultiheadAttentionInfer_Xdl_CShuffle",
     ADataType |-> t.scalar_t,
     Acc0BiasDataType |-> IF t.has_attn_bias THEN t.scalar_t ELSE "void",
     MaskingSpec |-> t.custom_mask_type,
     kGemm1NPerBlock |-> nPerBlock,
     kGemm1NXdlPerWave |-> nXdlPerWave,
     kCShuffleNXdlPerWavePerShuffle |-> cShuffleNXdl]

\* op.GetTypeString(): the library's name of the device op.
GetTypeString(op) ==
    IF op.kGemm1NPerBlock = 32
    THEN "DeviceBatchedMultiheadAttentionInfer_Xdl_CShuffle<32>"
    ELSE IF op.kGemm1NPerBlock = 64
    THEN "DeviceBatchedMultiheadAttentionInfer_Xdl_CShuffle<64>"
    ELSE "DeviceBatchedMultiheadAttentionInfer_Xdl_CShuffle<128>"

MakeArgumentPointerArgs_BiasPtrAlways(t, p) ==
    [p_a |-> p.q_ptr, p_b0 |-> p.k_ptr, p_b1 |-> p.v_ptr, p_c |-> p.out_ptr,
     p_acc0_bias |-> p.attn_bias_ptr,
     a_gs_ms_ks_lengths |-> <<p.B, p.num_heads, p.M, p.K>>,
     a_gs_ms_ks_strides |-> <<p.q_strides[1], p.q_strides[3],
                              p.q_strides[2], p.q_strides[4]>>,
     b0_gs_ns_ks_lengths |-> <<p.B, p.num_heads, p.N, p.K>>,
     b0_gs_ns_ks_strides |-> <<p.k_strides[1], p.k_strides[3],
                               p.k_strides[2], p.k_strides[4]>>,
     b1_gs_os_ns_lengths |-> <<p.B, p.num_heads, p.Kv, p.N>>,
     b1_gs_os_ns_strides |-> <<p.v_strides[1], p.v_strides[3],
                               p.v_strides[4], p.v_strides[2]>>,
     c_gs_ms_os_lengths |-> <<p.B, p.num_heads, p.M, p.Kv>>,
     c_gs_ms_os_strides |-> <<p.out_strides[1], p.out_strides[3],
                              p.out_strides[2], p.out_strides[4]>>,
     d_gs_ms_ns_lengths |->
        IF t.has_attn_bias THEN <<p.B, p.num_heads, p.M, p.N>>
                           ELSE <<1, 1, 1, 1>>,
     d_gs_ms_ns_strides |->
        IF t.has_attn_bias
        THEN <<p.attn_bias_strides[1], p.attn_bias_strides[2],
               p.attn_bias_strides[3], p.attn_bias_strides[4]>>
        ELSE <<0, 0, 0, 0>>,
     acc0_element_op |-> [alpha |-> p.scale]]

\* The arguments of op.MakeArgumentPointer (lines 178-263).
MakeArgumentPointerArgs_QAsBMHK(t, p) ==
    [p_a |-> p.q_ptr, p_b0 |-> p.k_ptr, p_b1 |-> p.v_ptr, p_c |-> p.out_ptr,
     p_acc0_bias |-> IF p.has_attn_bias THEN p.attn_bias_ptr ELSE nullptr,
     a_gs_ms_ks_lengths |-> <<p.B, p.num_heads, p.M, p.K>>,
     a_gs_ms_ks_strides |-> <<p.q_strides[1], p.q_strides[2],
                              p.q_strides[3], p.q_strides[4]>>,
     b0_gs_ns_ks_lengths |-> <<p.B, p.num_heads, p.N, p.K>>,
     b0_gs_ns_ks_strides |-> <<p.k_strides[1], p.k_strides[3],
                               p.k_strides[2], p.k_strides[4]>>,
     b1_gs_os_ns_lengths |-> <<p.B, p.num_heads, p.Kv, p.N>>,
     b1_gs_os_ns_strides |-> <<p.v_strides[1], p.v_strides[3],
                               p.v_strides[4], p.v_strides[2]>>,
     c_gs_ms_os_lengths |-> <<p.B, p.num_heads, p.M, p.Kv>>,
     c_gs_ms_os_strides |-> <<p.out_strides[1], p.out_strides[3],
                              p.out_strides[2], p.out_strides[4]>>,
     d_gs_ms_ns_lengths |->
        IF t.has_attn_bias THEN <<p.B, p.num_heads, p.M, p.N>>
                           ELSE <<1, 1, 1, 1>>,
     d_gs_ms_ns_strides |->
        IF t.has_attn_bias
        THEN <<p.attn_bias_strides[1], p.attn_bias_strides[2],
               p.attn_bias_strides[3], p.attn_bias_strides[4]>>
        ELSE <<0, 0, 0, 0>>,
     acc0_element_op |-> [alpha |-> p.scale]]

MakeArgumentPointerArgs(t, p) ==
    [p_a |-> p.q_ptr, p_b0 |-> p.k_ptr, p_b1 |-> p.v_ptr, p_c |-> p.out_ptr,
     p_acc0_bias |-> IF p.has_attn_bias THEN p.attn_bias_ptr ELSE nullptr,
     a_gs_ms_ks_lengths |-> <<p.B, p.num_heads, p.M, p.K>>,
     a_gs_ms_ks_strides |-> <<p.q_strides[1], p.q_strides[3],
                              p.q_strides[2], p.q_strides[4]>>,
     b0_gs_ns_ks_lengths |-> <<p.B, p.num_heads, p.N, p.K>>,
     b0_gs_ns_ks_strides |-> <<p.k_strides[1], p.k_strides[3],
                               p.k_strides[2], p.k_strides[4]>>,
     b1_gs_os_ns_lengths |-> <<p.B, p.num_heads, p.Kv, p.N>>,
     b1_gs_os_ns_strides |-> <<p.v_strides[1], p.v_strides[3],
                               p.v_strides[4], p.v_strides[2]>>,
     c_gs_ms_os_lengths |-> <<p.B, p.num_heads, p.M, p.Kv>>,
     c_gs_ms_os_strides |-> <<p.out_strides[1], p.out_strides[3],
                              p.out_strides[2], p.out_strides[4]>>,
     d_gs_ms_ns_lengths |->
        IF t.has_attn_bias THEN <<p.B, p.num_heads, p.M, p.N>>
                           ELSE <<1, 1, 1, 1>>,
     d_gs_ms_ns_strides |->
        IF t.has_attn_bias
        THEN <<p.attn_bias_strides[1], p.attn_bias_strides[2],
               p.attn_bias_strides[3], p.attn_bias_strides[4]>>
        ELSE <<0, 0, 0, 0>>,
     acc0_element_op |-> [alpha |-> p.scale]]

\* The library calls made up to and including op.IsSupportedArgument, whose
\* answer is recorded with the call.
DeviceOpPrologue(supported) ==
    << "MakeInvoker", "MakeArgumentPointer", "GetWorkSpaceSize",
       "SetWorkSpacePointer",
       IF supported THEN "IsSupportedArgument=true"
                    ELSE "IsSupportedArgument=false" >>

\* RunWithDeviceOp<DeviceOpInstance>
RunWithDeviceOpInst(op) == [name |-> "RunWithDeviceOp", DeviceOpInstance |-> op]

\* RunWithDeviceOp<DeviceOpInstance>(param, stream) (lines 177-278);
\* `supported` is what the library's IsSupportedArgument answers for the
\* argument built.
RunWithDeviceOp_RunUnchecked(op, t, p, strm, supported) ==
    [error    |-> NoError,
     invoked  |-> << RunWithDeviceOpInst(op) >>,
     events   |-> DeviceOpPrologue(supported) \o << "invoker.Run" >>,
     kargs    |-> MakeArgumentPointerArgs(t, p),
     launches |-> << [kernel |-> op, stream |-> strm] >>]

RunWithDeviceOp(op, t, p, strm, supported) ==
    IF ~supported
    THEN [error    |-> GetTypeString(op) \o " does not support this problem",
          invoked  |-> << RunWithDeviceOpInst(op) >>,
          events   |-> DeviceOpPrologue(supported),
          kargs    |-> MakeArgumentPointerArgs(t, p),
          launches |-> <<>>]
    ELSE [error    |-> NoError,
          invoked  |-> << RunWithDeviceOpInst(op) >>,
          events   |-> DeviceOpPrologue(supported) \o << "invoker.Run" >>,
          kargs    |-> MakeArgumentPointerArgs(t, p),
          launches |-> << [kernel |-> op, stream |-> strm] >>]

batched_infer_Run_EitherFits(t, p, strm, supported) ==
    IF p.K <= 32 \/ p.Kv <= 32
    THEN RunWithDeviceOp(DeviceOpInstanceTemp(t, 32, 1, 1), t, p, strm, supported)
    ELSE IF p.K <= 64 \/ p.Kv <= 64
    THEN RunWithDeviceOp(DeviceOpInstanceTemp(t, 64, 2, 2), t, p, strm, supported)
    ELSE RunWithDeviceOp(DeviceOpInstanceTemp(t, 128, 4, 4), t, p, strm, supported)

batched_infer_Run_RejectsOversized(t, p, strm, supported) ==
    IF p.K <= 32 /\ p.Kv <= 32
    THEN RunWithDeviceOp(DeviceOpInstanceTemp(t, 32, 1, 1), t, p, strm, supported)
    ELSE IF p.K <= 64 /\ p.Kv <= 64
    THEN RunWithDeviceOp(DeviceOpInstanceTemp(t, 64, 2, 2), t, p, strm, supported)
    ELSE IF p.K <= 128 /\ p.Kv <= 128
    THEN RunWithDeviceOp(DeviceOpInstanceTemp(t, 128, 4, 4), t, p, strm, supported)
    ELSE [error    |-> "Head-dim sizes not supported!",
          invoked  |-> <<>>, events |-> <<>>,
          kargs    |-> NoKargs, launches |-> <<>>]

\* batched_infer_masktype_attnbias_dispatched<...>::Run (lines 139-174).
batched_infer_Run(t, p, strm, supported) ==
    IF p.K <= 32 /\ p.Kv <= 32
    THEN RunWithDeviceOp(DeviceOpInstanceTemp(t, 32, 1, 1), t, p, strm, supported)
    ELSE IF p.K <= 64 /\ p.Kv <= 64
    THEN RunWithDeviceOp(DeviceOpInstanceTemp(t, 64, 2, 2), t, p, strm, supported)
    ELSE RunWithDeviceOp(DeviceOpInstanceTemp(t, 128, 4, 4), t, p, strm, supported)

(***************************************************************************)
(* ck_tiled_fmha_fwd_setting.h                                             *)
(***************************************************************************)
MaxKs == {32, 64, 128, 256}

\* FmhaFwdBlockTile<MaxK>::type = Sequence<kM0, kN0, kK0, kN1, kK1,
\* kK0BlockLength>
FmhaFwdBlockTile(MaxK) ==
    IF MaxK = 32 THEN <<128, 64, 16, 32, 32, 32>>
    ELSE IF MaxK = 64 THEN <<128, 64, 32, 64, 32, 64>>
    ELSE IF MaxK = 128 THEN <<128, 128, 32, 128, 32, 128>>
    ELSE <<128, 128, 32, 256, 32, 256>>

kK0BlockLength_AsK0(MaxK) == FmhaFwdBlockTile(MaxK)[3]

\* FmhaFwdShape<MaxK>::kN1 and ::kK0BlockLength
kN1(MaxK)            == FmhaFwdBlockTile(MaxK)[4]
kK0BlockLength(MaxK) == FmhaFwdBlockTile(MaxK)[6]

(***************************************************************************)
(* GroupedForwardParams, shared by ck_tiled_fmha_grouped_forward.h and     *)
(* ck_tiled_fmha_grouped_infer.h                                           *)
(***************************************************************************)
\* dropout_prob in tenths
DropoutProbs == {0, 5}

GroupedHeadDims(MaxK) == {1, MaxK \div 2, MaxK}

\* The causal-mask template flag the entry points instantiate the grouped
\* dispatchers with: mask type 0 is no causal mask, 1 and 2 are causal, as
\* batched_backward_fp16 picks it for the backward pass.
DispatchedCausalMask(p) == p.custom_mask_type \in {1, 2}

\* The strides of tensor number i of a grouped parameter struct.
GroupedStrides(seed, i) ==
    TensorStrides(<<seed + 1, seed + 2, seed + 3, seed + 4>>, i)

\* x_strides[j] of the code is x_strides[j + 1] here.
GroupedForwardParamsSet(MaxK) ==
    { [K |-> k, Kv |-> kv, Hq |-> hq, Hkv |-> hkv, scale |-> seed + 1,
       num_batches |-> 2, max_seqlen_q |-> 8,
       window_size |-> w, custom_mask_type |-> m, dropout_prob |-> dp,
       philox_seed |-> seed, philox_offset |-> seed + 1,
       q_ptr |-> "q", k_ptr |-> "k", v_ptr |-> "v", out_ptr |-> "out",
       attn_bias_ptr |-> "attn_bias", logsumexp_ptr |-> "logsumexp",
       seqstart_q_dev_ptr |-> "seqstart_q", seqstart_k_dev_ptr |-> "seqstart_k",
       seqlen_k_dev_ptr |-> "seqlen_k",
       q_strides |-> GroupedStrides(seed, 0),
       k_strides |-> GroupedStrides(seed, 1),
       v_strides |-> GroupedStrides(seed, 2),
       out_strides |-> GroupedStrides(seed, 3),
       attn_bias_strides |-> GroupedStrides(seed, 4),
       lse_strides |-> GroupedStrides(seed, 5)] :
      k \in GroupedHeadDims(MaxK), kv \in GroupedHeadDims(MaxK),
      hq \in 1..MaxHeads, hkv \in 1..MaxHeads,
      w \in (-1)..MaxWindow, m \in 0..2, dp \in DropoutProbs,
      seed \in 0..MaxSeed }

(***************************************************************************)
(* ck_tiled_fmha_grouped_forward.h                                         *)
(***************************************************************************)
GroupedForwardTmplSet ==
    [ScalarType : {"half_t"}, kHasCausalMask : BOOLEAN, kHasBias : BOOLEAN,
     kHasDropout : BOOLEAN, MaxK : MaxKs]

grouped_forward_Kernel_CausalOnly(t, p) ==
    LET has_local_attention == IF p.window_size > 0 THEN TRUE ELSE FALSE
        USE_LOCAL_ATTENTION == has_local_attention
        has_masking   == t.kHasCausalMask
        occupancy     == IF t.MaxK = 64 THEN 3 ELSE IF t.MaxK = 256 THEN 1 ELSE 2
        pad_headdim_q == ~(p.K % kK0BlockLength(t.MaxK) = 0)
        pad_headdim_v == ~(p.Kv % kN1(t.MaxK) = 0)
    IN  [name |-> "FmhaFwdKernel", ScalarType |-> t.ScalarType,
         FmhaFwdShape |-> t.MaxK, kIsGroupMode |-> TRUE,
         FmhaMask |-> [name |-> "SimplifiedGenericAttentionMask",
                       IsMasking |-> has_masking],
         kPadSeqLenQ |-> TRUE, kPadSeqLenK |-> TRUE,
         kPadHeadDimQ |-> pad_headdim_q, kPadHeadDimV |-> pad_headdim_v,
         kHasBias |-> t.kHasBias, kHasBiasGrad |-> FALSE, kStoreLSE |-> TRUE,
         kHasDropout |-> t.kHasDropout, occupancy |-> occupancy]

\* The FmhaFwdKernel_ type Run builds (lines 57-106).
grouped_forward_Kernel(t, p) ==
    LET has_local_attention == IF p.window_size > 0 THEN TRUE ELSE FALSE
        USE_LOCAL_ATTENTION == has_local_attention
        has_masking   == t.kHasCausalMask \/ USE_LOCAL_ATTENTION
        occupancy     == IF t.MaxK = 64 THEN 3 ELSE IF t.MaxK = 256 THEN 1 ELSE 2
        pad_headdim_q == ~(p.K % kK0BlockLength(t.MaxK) = 0)
        pad_headdim_v == ~(p.Kv % kN1(t.MaxK) = 0)
    IN  [name |-> "FmhaFwdKernel", ScalarType |-> t.ScalarType,
         FmhaFwdShape |-> t.MaxK, kIsGroupMode |-> TRUE,
         FmhaMask |-> [name |-> "SimplifiedGenericAttentionMask",
                       IsMasking |-> has_masking],
         kPadSeqLenQ |-> TRUE, kPadSeqLenK |-> TRUE,
         kPadHeadDimQ |-> pad_headdim_q, kPadHeadDimV |-> pad_headdim_v,
         kHasBias |-> t.kHasBias, kHasBiasGrad |-> FALSE, kStoreLSE |-> TRUE,
         kHasDropout |-> t.kHasDropout, occupancy |-> occupancy]

grouped_forward_MakeKargs_RightWindowSwapped(p) ==
    [q_ptr |-> p.q_ptr, k_ptr |-> p.k_ptr, v_ptr |-> p.v_ptr,
     bias_ptr |-> p.attn_bias_ptr, rand_val_ptr |-> nullptr,
     lse_ptr |-> p.logsumexp_ptr, o_ptr |-> p.out_ptr,
     seqstart_q_ptr |-> p.seqstart_q_dev_ptr,
     seqstart_k_ptr |-> p.seqstart_k_dev_ptr,
     seqlen_k_ptr |-> p.seqlen_k_dev_ptr,
     hdim_q |-> p.K, hdim_v |-> p.Kv, nhead_q |-> p.Hq,
     nhead_ratio_qk |-> p.Hq \div p.Hkv, scale |-> p.scale,
     stride_q |-> p.q_strides[1], stride_k |-> p.k_strides[1],
     stride_v |-> p.v_strides[1], stride_bias |-> p.attn_bias_strides[3],
     stride_randval |-> 0, stride_o |-> p.out_strides[1],
     nhead_stride_q |-> p.q_strides[2], nhead_stride_k |-> p.k_strides[2],
     nhead_stride_v |-> p.v_strides[2],
     nhead_stride_bias |-> p.attn_bias_strides[2],
     nhead_stride_randval |-> 0, nhead_stride_lse |-> p.lse_strides[2],
     nhead_stride_o |-> p.out_strides[2],
     batch_stride_lse |-> p.lse_strides[1],
     window_left_size |-> IF p.window_size > 0 THEN p.window_size - 1 ELSE -1,
     window_right_size |-> IF p.custom_mask_type = 0 THEN 0 ELSE -1,
     mask_type |-> p.custom_mask_type,
     descale_qk |-> 1, descale_sv |-> 1,
     p_drop |-> p.dropout_prob, is_store_randval |-> FALSE,
     drop_seed_offset |-> <<p.philox_seed, p.philox_offset>>]

\* The arguments of FmhaFwdKernel::MakeKargs (lines 115-157).
grouped_forward_MakeKargs(p) ==
    [q_ptr |-> p.q_ptr, k_ptr |-> p.k_ptr, v_ptr |-> p.v_ptr,
     bias_ptr |-> p.attn_bias_ptr, rand_val_ptr |-> nullptr,
     lse_ptr |-> p.logsumexp_ptr, o_ptr |-> p.out_ptr,
     seqstart_q_ptr |-> p.seqstart_q_dev_ptr,
     seqstart_k_ptr |-> p.seqstart_k_dev_ptr,
     seqlen_k_ptr |-> p.seqlen_k_dev_ptr,
     hdim_q |-> p.K, hdim_v |-> p.Kv, nhead_q |-> p.Hq,
     nhead_ratio_qk |-> p.Hq \div p.Hkv, scale |-> p.scale,
     stride_q |-> p.q_strides[1], stride_k |-> p.k_strides[1],
     stride_v |-> p.v_strides[1], stride_bias |-> p.attn_bias_strides[3],
     stride_randval |-> 0, stride_o |-> p.out_strides[1],
     nhead_stride_q |-> p.q_strides[2], nhead_stride_k |-> p.k_strides[2],
     nhead_stride_v |-> p.v_strides[2],
     nhead_stride_bias |-> p.attn_bias_strides[2],
     nhead_stride_randval |-> 0, nhead_stride_lse |-> p.lse_strides[2],
     nhead_stride_o |-> p.out_strides[2],
     batch_stride_lse |-> p.lse_strides[1],
     window_left_size |-> IF p.window_size > 0 THEN p.window_size - 1 ELSE -1,
     window_right_size |-> IF p.custom_mask_type = 0 THEN -1 ELSE 0,
     mask_type |-> p.custom_mask_type,
     descale_qk |-> 1, descale_sv |-> 1,
     p_drop |-> p.dropout_prob, is_store_randval |-> FALSE,
     drop_seed_offset |-> <<p.philox_seed, p.philox_offset>>]

\* RunWithKernel<FmhaFwdKernel>(param, stream) (lines 114-171).
grouped_forward_RunWithKernel(kernel, p, strm) ==
    [error    |-> NoError,
     kargs    |-> grouped_forward_MakeKargs(p),
     launches |-> << [kernel |-> kernel, stream |-> strm,
                      grid |-> <<p.num_batches, p.Hq, p.max_seqlen_q, p.Kv>>] >>]

\* grouped_forward_causalmask_bias_dropout_dispatch<...>::Run
grouped_forward_Run(t, p, strm) ==
    grouped_forward_RunWithKernel(grouped_forward_Kernel(t, p), p, strm)

(***************************************************************************)
(* ck_tiled_fmha_grouped_infer.h                                           *)
(***************************************************************************)
GroupedInferTmplSet ==
    [scalar_t : {"half_t"}, has_causal_mask : BOOLEAN,
     has_attn_bias : BOOLEAN, MaxK : MaxKs]

grouped_infer_Kernel_StoresLSE(t, p) ==
    LET has_local_attention == IF p.window_size > 0 THEN TRUE ELSE FALSE
        USE_LOCAL_ATTENTION == has_local_attention
        has_masking   == t.has_causal_mask \/ USE_LOCAL_ATTENTION
        has_dropout   == p.dropout_prob > 0
        occupancy     == IF t.MaxK = 64 THEN 3 ELSE IF t.MaxK = 256 THEN 1 ELSE 2
        pad_headdim_q == ~(p.K % kK0BlockLength(t.MaxK) = 0)
        pad_headdim_v == ~(p.Kv % kN1(t.MaxK) = 0)
    IN  [name |-> "FmhaFwdKernel", ScalarType |-> t.scalar_t,
         FmhaFwdShape |-> t.MaxK, kIsGroupMode |-> TRUE,
         FmhaMask |-> [name |-> "GenericAttentionMask",
                       IsMasking |-> has_masking,
                       IsLocal |-> USE_LOCAL_ATTENTION],
         kPadSeqLenQ |-> TRUE, kPadSeqLenK |-> TRUE,
         kPadHeadDimQ |-> pad_headdim_q, kPadHeadDimV |-> pad_headdim_v,
         kHasBias |-> t.has_attn_bias, kHasBiasGrad |-> FALSE,
         kStoreLSE |-> TRUE, kHasDropout |-> has_dropout,
         occupancy |-> occupancy]

\* The FmhaKernel type Run builds (lines 58-111).
grouped_infer_Kernel(t, p) ==
    LET has_local_attention == IF p.window_size > 0 THEN TRUE ELSE FALSE
        USE_LOCAL_ATTENTION == has_local_attention
        has_masking   == t.has_causal_mask \/ USE_LOCAL_ATTENTION
        has_dropout   == p.dropout_prob > 0
        occupancy     == IF t.MaxK = 64 THEN 3 ELSE IF t.MaxK = 256 THEN 1 ELSE 2
        pad_headdim_q == ~(p.K % kK0BlockLength(t.MaxK) = 0)
        pad_headdim_v == ~(p.Kv % kN1(t.MaxK) = 0)
    IN  [name |-> "FmhaFwdKernel", ScalarType |-> t.scalar_t,
         FmhaFwdShape |-> t.MaxK, kIsGroupMode |-> TRUE,
         FmhaMask |-> [name |-> "GenericAttentionMask",
                       IsMasking |-> has_masking,
                       IsLocal |-> USE_LOCAL_ATTENTION],
         kPadSeqLenQ |-> TRUE, kPadSeqLenK |-> TRUE,
         kPadHeadDimQ |-> pad_headdim_q, kPadHeadDimV |-> pad_headdim_v,
         kHasBias |-> t.has_attn_bias, kHasBiasGrad |-> FALSE,
         kStoreLSE |-> FALSE, kHasDropout |-> has_dropout,
         occupancy |-> occupancy]

\* The arguments of FmhaKernel::MakeKargs (lines 120-160).
grouped_infer_MakeKargs(p) ==
    [q_ptr |-> p.q_ptr, k_ptr |-> p.k_ptr, v_ptr |-> p.v_ptr,
     bias_ptr |-> p.attn_bias_ptr, rand_val_ptr |-> nullptr,
     lse_ptr |-> nullptr, o_ptr |-> p.out_ptr,
     seqstart_q_ptr |-> p.seqstart_q_dev_ptr,
     seqstart_k_ptr |-> p.seqstart_k_dev_ptr,
     seqlen_k_ptr |-> p.seqlen_k_dev_ptr,
     hdim_q |-> p.K, hdim_v |-> p.Kv, nhead_q |-> p.Hq,
     nhead_ratio_qk |-> p.Hq \div p.Hkv, scale |-> p.scale,
     stride_q |-> p.q_strides[1], stride_k |-> p.k_strides[1],
     stride_v |-> p.v_strides[1], stride_bias |-> p.attn_bias_strides[3],
     stride_randval |-> 0, stride_o |-> p.out_strides[1],
     nhead_stride_q |-> p.q_strides[2], nhead_stride_k |-> p.k_strides[2],
     nhead_stride_v |-> p.v_strides[2],
     nhead_stride_bias |-> p.attn_bias_strides[2],
     nhead_stride_randval |-> 0, nhead_stride_lse |-> 0,
     nhead_stride_o |-> p.out_strides[2],
     batch_stride_lse |-> 0,
     mask_type |-> p.custom_mask_type,
     window_size |-> p.window_size,
     descale_qk |-> 1, descale_sv |-> 1,
     p_drop |-> p.dropout_prob, is_store_randval |-> FALSE,
     drop_seed_offset |-> <<0, 0>>]

\* RunWithKernel<FmhaKernel>(param, stream) (lines 119-174).
grouped_infer_RunWithKernel(kernel, p, strm) ==
    [error    |-> NoError,
     kargs    |-> grouped_infer_MakeKargs(p),
     launches |-> << [kernel |-> kernel, stream |-> strm,
                      grid |-> <<p.num_batches, p.Hq, p.max_seqlen_q, p.Kv>>] >>]

\* grouped_infer_causalmask_attnbias_dispatched<...>::Run
grouped_infer_Run(t, p, strm) ==
    grouped_infer_RunWithKernel(grouped_infer_Kernel(t, p), p, strm)

(***************************************************************************)
(* Spec: one call at a time into the dispatch layer.  An action is a whole *)
(* call: the parameter struct and the template arguments are the caller's  *)
(* choice, the answer of IsSupportedArgument is the library's.             *)
(***************************************************************************)
DispatchIdle ==
    /\ fn = "none" /\ tmpl = NoTmpl /\ param = NoParam /\ param0 = NoParam
    /\ strm0 = "none"
    /\ error = NoError /\ invoked = <<>> /\ events = <<>>
    /\ kargs = NoKargs /\ launches = <<>>

RandIdle ==
    /\ pc = [t \in 1..NumThreads |-> "idle"]
    /\ shape = [t \in 1..NumThreads |-> <<0, 0, 0, 0>>]
    /\ cur = [t \in 1..NumThreads |-> "stream0"]
    /\ stream = [t \in 1..NumThreads |-> "none"]
    /\ rng = [t \in 1..NumThreads |-> <<0, 0>>]
    /\ incr = [t \in 1..NumThreads |-> 0]
    /\ randvals = [t \in 1..NumThreads |-> NoTensor]
    /\ mutex_ = 0
    /\ gen = [seed |-> 1, offset |-> 0]
    /\ reserved = <<>>
    /\ log = [t \in 1..NumThreads |-> <<>>]
    /\ ncalls = 0

Init == DispatchIdle /\ RandIdle

Call_batched_backward_bp16 ==
    /\ fn = "none"
    /\ \E p \in BatchedBackwardParamsSet, strm \in Streams :
         LET r == batched_backward_bp16(p)
         IN  /\ fn' = "batched_backward_bp16"
             /\ tmpl' = NoTmpl
             /\ param0' = p /\ param' = p /\ strm0' = strm
             /\ error' = r.error /\ invoked' = r.invoked
             /\ events' = <<>> /\ kargs' = NoKargs /\ launches' = <<>>
    /\ UNCHANGED rvars

Call_batched_backward_fp16 ==
    /\ fn = "none"
    /\ \E p \in BatchedBackwardParamsSet, strm \in Streams :
         LET r == batched_backward_fp16(p)
         IN  /\ fn' = "batched_backward_fp16"
             /\ tmpl' = NoTmpl
             /\ param0' = p /\ param' = p /\ strm0' = strm
             /\ error' = r.error /\ invoked' = r.invoked
             /\ events' = <<>> /\ kargs' = NoKargs /\ launches' = <<>>
    /\ UNCHANGED rvars

Call_batched_infer_Run ==
    /\ fn = "none"
    /\ \E p \in BatchedForwardParamsSet, strm \in Streams,
          supported \in BOOLEAN :
         LET t == batched_infer_TemplateArgs(p)
             r == batched_infer_Run(t, p, strm, supported)
         IN  /\ t \in BatchedInferTmplSet
             /\ fn' = "batched_infer_Run"
             /\ tmpl' = t
             /\ param0' = p /\ param' = p /\ strm0' = strm
             /\ error' = r.error /\ invoked' = r.invoked
             /\ events' = r.events /\ kargs' = r.kargs
             /\ launches' = r.launches
    /\ UNCHANGED rvars

Call_grouped_forward_Run ==
    /\ fn = "none"
    /\ \E t \in GroupedForwardTmplSet, strm \in Streams :
         \E p \in GroupedForwardParamsSet(t.MaxK) :
           LET r == grouped_forward_Run(t, p, strm)
           IN  /\ t.kHasCausalMask = DispatchedCausalMask(p)
               /\ fn' = "grouped_forward_Run"
               /\ tmpl' = t
               /\ param0' = p /\ param' = p /\ strm0' = strm
               /\ error' = r.error /\ invoked' = <<>>
               /\ events' = <<>> /\ kargs' = r.kargs
               /\ launches' = r.launches
    /\ UNCHANGED rvars

Call_grouped_infer_Run ==
    /\ fn = "none"
    /\ \E t \in GroupedInferTmplSet, strm \in Streams :
         \E p \in GroupedForwardParamsSet(t.MaxK) :
           LET r == grouped_infer_Run(t, p, strm)
           IN  /\ t.has_causal_mask = DispatchedCausalMask(p)
               /\ fn' = "grouped_infer_Run"
               /\ tmpl' = t
               /\ param0' = p /\ param' = p /\ strm0' = strm
               /\ error' = r.error /\ invoked' = <<>>
               /\ events' = <<>> /\ kargs' = r.kargs
               /\ launches' = r.launches
    /\ UNCHANGED rvars

\* The call has returned or raised; the caller may make the next one.
Return ==
    /\ fn # "none"
    /\ fn' = "none" /\ tmpl' = NoTmpl /\ param' = NoParam /\ param0' = NoParam
    /\ strm0' = "none"
    /\ error' = NoError /\ invoked' = <<>> /\ events' = <<>>
    /\ kargs' = NoKargs /\ launches' = <<>>
    /\ UNCHANGED rvars

Next ==
    \/ Call_batched_backward_bp16
    \/ Call_batched_backward_fp16
    \/ Call_batched_infer_Run
    \/ Call_grouped_forward_Run
    \/ Call_grouped_infer_Run
    \/ Return

Spec == Init /\ [][Next]_vars

(***************************************************************************)
(* attention_ck_rand_uniform.cpp: rand_uniform_int, one statement per      *)
(* step, called concurrently by the threads 1..NumThreads on the default   *)
(* generator.                                                              *)
(***************************************************************************)
Threads == 1..NumThreads

\* out_pattern.size(0..3): [B, num_heads, M, N], B = 0 an empty tensor
RandShapes == { <<b, 2, 1, MaxDim>> : b \in 0..MaxDim }

\* The arithmetic of int, 32 bits in two's complement, and of the wider
\* types is done on base-256 digits, least significant first: Digits(n, k)
\* are the k low digits of 0 <= n < 2^31.
Digits(n, k) ==
    [i \in 1..k |-> IF i = 1 THEN n % 256
                    ELSE IF i = 2 THEN (n \div 256) % 256
                    ELSE IF i = 3 THEN (n \div 65536) % 256
                    ELSE IF i = 4 THEN (n \div 16777216) % 256
                    ELSE 0]

\* Column j of the product of a and b: the sum of a[i] * b[j - i + 1] from i
\* on.
RECURSIVE ColumnSum(_, _, _, _)
ColumnSum(a, b, j, i) ==
    IF i > j \/ i > Len(a) THEN 0
    ELSE (IF j - i + 1 <= Len(b) THEN a[i] * b[j - i + 1] ELSE 0)
         + ColumnSum(a, b, j, i + 1)

RECURSIVE MulFrom(_, _, _, _, _)
MulFrom(a, b, k, j, carry) ==
    IF j > k THEN <<>>
    ELSE LET first == IF j > Len(b) THEN j - Len(b) + 1 ELSE 1
             c     == ColumnSum(a, b, j, first) + carry
         IN  <<c % 256>> \o MulFrom(a, b, k, j + 1, c \div 256)

\* a * b modulo 256^k
DigitsMul(a, b, k) == MulFrom(a, b, k, 1, 0)

\* The int with the four digits d.
IntValue(d) ==
    d[1] + 256 * d[2] + 65536 * d[3]
      + 16777216 * (IF d[4] >= 128 THEN d[4] - 256 ELSE d[4])

\* int B = out_pattern.size(0) and its like (lines 31-34): the size
\* converted to int, which keeps its low 32 bits.
IntOfSize(n) == IntValue(Digits(n, 4))

\* The product of the first i sizes as the integers have it, on 16 digits:
\* sizes below 2^31 never fill them.
ExactProduct(sh, i) ==
    LET p2 == DigitsMul(Digits(sh[1], 4), Digits(sh[2], 4), 8)
        p3 == DigitsMul(p2, Digits(sh[3], 4), 12)
    IN  IF i = 1 THEN Digits(sh[1], 16)
        ELSE IF i = 2 THEN [j \in 1..16 |-> IF j <= 8 THEN p2[j] ELSE 0]
        ELSE IF i = 3 THEN [j \in 1..16 |-> IF j <= 12 THEN p3[j] ELSE 0]
        ELSE DigitsMul(p3, Digits(sh[4], 4), 16)

\* The product of two ints a, b >= 0 overflows when it exceeds INT_MAX.
IntMulOverflows(a, b) == a # 0 /\ b > 2147483647 \div a

\* B * num_heads * M * N is evaluated left to right; sizes are >= 0.
IntOverflows(sh) ==
    LET B == IntOfSize(sh[1])
        num_heads == IntOfSize(sh[2])
        M == IntOfSize(sh[3])
        N == IntOfSize(sh[4])
    IN  \/ IntMulOverflows(B, num_heads)
        \/ IntMulOverflows(B * num_heads, M)
        \/ IntMulOverflows(B * num_heads * M, N)

\* B * num_heads * M * N (line 46) in int, as the multiply instruction
\* leaves it: the product, or its low 32 bits where it overflows.
NumElements(sh) ==
    IF IntOverflows(sh)
    THEN IntValue(DigitsMul(DigitsMul(DigitsMul(Digits(sh[1], 4),
                                                Digits(sh[2], 4), 4),
                                      Digits(sh[3], 4), 4),
                            Digits(sh[4], 4), 4))
    ELSE IntOfSize(sh[1]) * IntOfSize(sh[2]) * IntOfSize(sh[3]) * IntOfSize(sh[4])

\* The values the expression can have: signed overflow is undefined, so a
\* build may leave any int; the wrapped product, zero and the two ends of
\* int stand for them.
NumElementsOutcomes(sh) ==
    IF IntOverflows(sh)
    THEN {NumElements(sh), 0, 2147483647, (0 - 2147483647) - 1}
    ELSE {NumElements(sh)}

\* The uint64_t an int converts to, on 16 digits: philox_cuda_state takes
\* its increment as uint64_t.
UInt64OfInt(n) ==
    IF n >= 0 THEN Digits(n, 16)
    ELSE LET low == Digits((n + 2147483647) + 1, 4)
         IN  [i \in 1..16 |-> IF i <= 3 THEN low[i]
                              ELSE IF i = 4 THEN low[4] + 128
                              ELSE IF i <= 8 THEN 255 ELSE 0]

\* What at::empty({B, num_heads, M, N}, ...dtype(Int)) allocates
\* (lines 54-57).
at_empty(sizes, dtype) == [storage |-> "at::empty", sizes |-> sizes, dtype |-> dtype]

\* One entry of a call's log: the step, whether the calling thread holds
\* gen->mutex_ while it takes the step, and the stream the step works on.
Step(t, name, strm) == [step |-> name, holds_lock |-> mutex_ = t, stream |-> strm]

\* Entry: out_pattern is the caller's choice (lines 27-34).
Enter(t) ==
    /\ pc[t] = "idle" /\ ncalls < MaxCalls
    /\ \E sh \in RandShapes, c \in Streams :
         /\ shape' = [shape EXCEPT ![t] = sh]
         /\ cur' = [cur EXCEPT ![t] = c]
    /\ ncalls' = ncalls + 1
    /\ log' = [log EXCEPT ![t] = <<>>]
    /\ stream' = [stream EXCEPT ![t] = "none"]
    /\ rng' = [rng EXCEPT ![t] = <<0, 0>>]
    /\ incr' = [incr EXCEPT ![t] = 0]
    /\ randvals' = [randvals EXCEPT ![t] = NoTensor]
    /\ pc' = [pc EXCEPT ![t] = "get_stream"]
    /\ UNCHANGED <<mutex_, gen, reserved>>
    /\ UNCHANGED dvars

\* hipStream_t stream = at::cuda::getCurrentHIPStream().stream() (line 37)
GetStream(t) ==
    /\ pc[t] = "get_stream"
    /\ stream' = [stream EXCEPT ![t] = cur[t]]
    /\ log' = [log EXCEPT ![t] = Append(@, Step(t, "getCurrentHIPStream", cur[t]))]
    /\ pc' = [pc EXCEPT ![t] = "lock"]
    /\ UNCHANGED <<shape, cur, rng, incr, randvals, mutex_, gen, reserved, ncalls>>
    /\ UNCHANGED dvars

\* std::lock_guard<std::mutex> lock(gen->mutex_) (line 45)
Lock_NoMutualExclusion(t) ==
    /\ pc[t] = "lock"
    /\ mutex_' = t
    /\ log' = [log EXCEPT ![t] = Append(@, Step(t, "lock", stream[t]))]
    /\ pc' = [pc EXCEPT ![t] = "philox_read"]
    /\ UNCHANGED <<shape, cur, stream, rng, incr, randvals, gen, reserved, ncalls>>
    /\ UNCHANGED dvars

Lock(t) ==
    /\ pc[t] = "lock"
    /\ mutex_ = 0
    /\ mutex_' = t
    /\ log' = [log EXCEPT ![t] = Append(@, Step(t, "lock", stream[t]))]
    /\ pc' = [pc EXCEPT ![t] = "philox_read"]
    /\ UNCHANGED <<shape, cur, stream, rng, incr, randvals, gen, reserved, ncalls>>
    /\ UNCHANGED dvars

\* gen->philox_cuda_state(B * num_heads * M * N) (line 46), first half: the
\* generator's seed and offset are read.
PhiloxRead(t) ==
    /\ pc[t] = "philox_read"
    /\ \E n \in NumElementsOutcomes(shape[t]) : incr' = [incr EXCEPT ![t] = n]
    /\ rng' = [rng EXCEPT ![t] = <<gen.seed, gen.offset>>]
    /\ pc' = [pc EXCEPT ![t] = "philox_advance"]
    /\ UNCHANGED <<shape, cur, stream, randvals, mutex_, gen, reserved, log, ncalls>>
    /\ UNCHANGED dvars

\* second half: the generator's offset is advanced by the increment and the
\* state read is returned.
PhiloxAdvance(t) ==
    /\ pc[t] = "philox_advance"
    /\ gen' = [gen EXCEPT !.offset = rng[t][2] + incr[t]]
    /\ reserved' = Append(reserved, [thread |-> t, seed |-> rng[t][1],
                                     offset |-> rng[t][2],
                                     increment |-> incr[t],
                                     holds_lock |-> mutex_ = t])
    /\ log' = [log EXCEPT ![t] = Append(@, Step(t, "philox_cuda_state", stream[t]))]
    /\ pc' = [pc EXCEPT ![t] = "unlock"]
    /\ UNCHANGED <<shape, cur, stream, rng, incr, randvals, mutex_, ncalls>>
    /\ UNCHANGED dvars

\* the closing brace of the lock_guard's block (line 47)
Unlock_AtFunctionEnd(t) ==
    /\ pc[t] = "unlock"
    /\ log' = [log EXCEPT ![t] = Append(@, Step(t, "unlock", stream[t]))]
    /\ pc' = [pc EXCEPT ![t] = "alloc"]
    /\ UNCHANGED <<shape, cur, stream, rng, incr, randvals, mutex_, gen, reserved,
                   ncalls>>
    /\ UNCHANGED dvars

Unlock(t) ==
    /\ pc[t] = "unlock"
    /\ mutex_' = IF mutex_ = t THEN 0 ELSE mutex_
    /\ log' = [log EXCEPT ![t] = Append(@, [step |-> "unlock", holds_lock |-> FALSE,
                                            stream |-> stream[t]])]
    /\ pc' = [pc EXCEPT ![t] = "alloc"]
    /\ UNCHANGED <<shape, cur, stream, rng, incr, randvals, gen, reserved, ncalls>>
    /\ UNCHANGED dvars

Alloc_PatternDtype(t) ==
    /\ pc[t] = "alloc"
    /\ randvals' = [randvals EXCEPT ![t] =
                       at_empty(<<IntOfSize(shape[t][1]), IntOfSize(shape[t][2]),
                                  IntOfSize(shape[t][3]), IntOfSize(shape[t][4])>>,
                                "Float")]
    /\ pc' = [pc EXCEPT ![t] = "launch"]
    /\ UNCHANGED <<shape, cur, stream, rng, incr, mutex_, gen, reserved, log, ncalls>>
    /\ UNCHANGED dvars

\* philox::unpack and randvals = at::empty({B, num_heads, M, N}, ...)
\* (lines 49-57)
Alloc(t) ==
    /\ pc[t] = "alloc"
    /\ randvals' = [randvals EXCEPT ![t] =
                       at_empty(<<IntOfSize(shape[t][1]), IntOfSize(shape[t][2]),
                                  IntOfSize(shape[t][3]), IntOfSize(shape[t][4])>>,
                                "Int")]
    /\ pc' = [pc EXCEPT ![t] = "launch"]
    /\ UNCHANGED <<shape, cur, stream, rng, incr, mutex_, gen, reserved, log, ncalls>>
    /\ UNCHANGED dvars

\* MakeKargs and launch_kernel(StreamConfig{stream, false}, ...) (lines 59-86)
Launch(t) ==
    /\ pc[t] = "launch"
    /\ log' = [log EXCEPT ![t] = Append(@, Step(t, "launch_kernel", stream[t]))]
    /\ pc' = [pc EXCEPT ![t] = "sync"]
    /\ UNCHANGED <<shape, cur, stream, rng, incr, randvals, mutex_, gen, reserved,
                   ncalls>>
    /\ UNCHANGED dvars

\* (void)hipStreamSynchronize(stream) (line 88)
Sync(t) ==
    /\ pc[t] = "sync"
    /\ log' = [log EXCEPT ![t] = Append(@, Step(t, "hipStreamSynchronize", stream[t]))]
    /\ pc' = [pc EXCEPT ![t] = "return"]
    /\ UNCHANGED <<shape, cur, stream, rng, incr, randvals, mutex_, gen, reserved,
                   ncalls>>
    /\ UNCHANGED dvars

\* return randvals (line 90)
ReturnTensor(t) ==
    /\ pc[t] = "return"
    /\ log' = [log EXCEPT ![t] = Append(@, Step(t, "return", stream[t]))]
    /\ pc' = [pc EXCEPT ![t] = "idle"]
    /\ stream' = [stream EXCEPT ![t] = "none"]
    /\ rng' = [rng EXCEPT ![t] = <<0, 0>>]
    /\ incr' = [incr EXCEPT ![t] = 0]
    /\ UNCHANGED <<shape, randvals, cur, mutex_, gen, reserved, ncalls>>
    /\ UNCHANGED dvars

NextRand ==
    \E t \in Threads :
        \/ Enter(t)
        \/ GetStream(t)
        \/ Lock(t)
        \/ PhiloxRead(t)
        \/ PhiloxAdvance(t)
        \/ Unlock(t)
        \/ Alloc(t)
        \/ Launch(t)
        \/ Sync(t)
        \/ ReturnTensor(t)

SpecRand == Init /\ [][NextRand]_vars

(***************************************************************************)
(* SpecLargeShapes: one call of rand_uniform_int by one thread, on         *)
(* out_pattern sizes up to 65536, where the int product of line 46 leaves  *)
(* the range of int.                                                       *)
(***************************************************************************)
LargeSizes  == {0, 1, 1000, 32768, 65536}
LargeShapes == { <<b, h, m, n>> : b \in LargeSizes, h \in LargeSizes,
                                  m \in LargeSizes, n \in LargeSizes }

\* Entry with a large out_pattern (lines 27-34).
EnterLarge(t) ==
    /\ pc[t] = "idle" /\ ncalls = 0
    /\ \E sh \in LargeShapes, c \in Streams :
         /\ shape' = [shape EXCEPT ![t] = sh]
         /\ cur' = [cur EXCEPT ![t] = c]
    /\ ncalls' = ncalls + 1
    /\ log' = [log EXCEPT ![t] = <<>>]
    /\ stream' = [stream EXCEPT ![t] = "none"]
    /\ rng' = [rng EXCEPT ![t] = <<0, 0>>]
    /\ incr' = [incr EXCEPT ![t] = 0]
    /\ randvals' = [randvals EXCEPT ![t] = NoTensor]
    /\ pc' = [pc EXCEPT ![t] = "get_stream"]
    /\ UNCHANGED <<mutex_, gen, reserved>>
    /\ UNCHANGED dvars

NextLargeShapes ==
    \/ EnterLarge(1)
    \/ GetStream(1)
    \/ Lock(1)
    \/ PhiloxRead(1)
    \/ PhiloxAdvance(1)
    \/ Unlock(1)
    \/ Alloc(1)
    \/ Launch(1)
    \/ Sync(1)
    \/ ReturnTensor(1)

SpecLargeShapes == Init /\ [][NextLargeShapes]_vars

(***************************************************************************)
(* SpecFrame: the calls of Spec and, after them, calls of rand_uniform_int *)
(* by one thread; what a call leaves of its arguments is a matter of each  *)
(* call alone.                                                             *)
(***************************************************************************)
NextFrame ==
    \/ (ncalls = 0 /\ Call_batched_backward_bp16)
    \/ (ncalls = 0 /\ Call_batched_backward_fp16)
    \/ (ncalls = 0 /\ Call_batched_infer_Run)
    \/ (ncalls = 0 /\ Call_grouped_forward_Run)
    \/ (ncalls = 0 /\ Call_grouped_infer_Run)
    \/ Return
    \/ (fn = "none" /\ Enter(1))
    \/ (fn = "none" /\ GetStream(1))
    \/ (fn = "none" /\ Lock(1))
    \/ (fn = "none" /\ PhiloxRead(1))
    \/ (fn = "none" /\ PhiloxAdvance(1))
    \/ (fn = "none" /\ Unlock(1))
    \/ (fn = "none" /\ Alloc(1))
    \/ (fn = "none" /\ Launch(1))
    \/ (fn = "none" /\ Sync(1))
    \/ (fn = "none" /\ ReturnTensor(1))

SpecFrame == Init /\ [][NextFrame]_vars

(***************************************************************************)
(* Properties                                                              *)
(***************************************************************************)
InvalidMaskMsg == "Invalid custom_mask_type value"
BiasGradMsg    == "bias_has_grad should be false when has_attn_bias is false!"

\* C1: batched_backward_bp16 called with a custom_mask_type other than 0, 1
\* or 2 (negative values included) raises the runtime error "Invalid
\* custom_mask_type value" and invokes no instantiation of
\* batched_backward_masktype_attnbias_dispatched, whatever has_attn_bias is.
C1_Bp16InvalidMaskRaises ==
    (fn = "batched_backward_bp16" /\ param0.custom_mask_type \notin {0, 1, 2})
        => (error = InvalidMaskMsg /\ invoked = <<>>)

C1_Witness ==
    /\ fn = "batched_backward_bp16"
    /\ param0.custom_mask_type < 0 /\ param0.has_attn_bias
    /\ error = InvalidMaskMsg

\* C2: batched_backward_fp16 called with a custom_mask_type other than 0, 1
\* or 2 ends in a runtime error and never invokes
\* run_batched_backward_causalmask_attnbias_dispatched, for every
\* has_attn_bias, bias_has_grad, K and Kv.
C2_Fp16InvalidMaskRaises ==
    (fn = "batched_backward_fp16" /\ param0.custom_mask_type \notin {0, 1, 2})
        => (error # NoError /\ invoked = <<>>)

C2_Witness ==
    /\ fn = "batched_backward_fp16"
    /\ param0.custom_mask_type > 2
    /\ param0.has_attn_bias /\ param0.bias_has_grad
    /\ param0.K <= 32 /\ param0.Kv <= 32
    /\ error = InvalidMaskMsg

\* C3: in RunWithDeviceOp of the batched infer path, when IsSupportedArgument
\* answers false the runtime error raised is the op's GetTypeString()
\* followed by " does not support this problem" and invoker.Run is not
\* executed; invoker.Run is executed only after IsSupportedArgument has
\* answered true.
C3_UnsupportedArgumentRaises ==
    fn = "batched_infer_Run" =>
        /\ (\E i \in 1..Len(events) : events[i] = "IsSupportedArgument=false")
             => /\ Len(invoked) = 1
                /\ error = GetTypeString(invoked[1].DeviceOpInstance)
                             \o " does not support this problem"
                /\ \A i \in 1..Len(events) : events[i] # "invoker.Run"
                /\ launches = <<>>
        /\ \A i \in 1..Len(events) :
             events[i] = "invoker.Run"
                => \E j \in 1..(i - 1) : events[j] = "IsSupportedArgument=true"

C3_Witness ==
    /\ fn = "batched_infer_Run"
    /\ events[Len(events)] = "IsSupportedArgument=false"
    /\ param0.K > 64
    /\ error = "DeviceBatchedMultiheadAttentionInfer_Xdl_CShuffle<128> does not support this problem"

\* C4: batched_backward_fp16 called with bias_has_grad true and has_attn_bias
\* false raises "bias_has_grad should be false when has_attn_bias is false!"
\* and launches nothing, for every custom_mask_type (valid or not) and every
\* K and Kv: this check comes before the mask-type check.
C4_Fp16BiasGradWithoutBiasRaises ==
    (fn = "batched_backward_fp16" /\ param0.bias_has_grad /\ ~param0.has_attn_bias)
        => (error = BiasGradMsg /\ invoked = <<>> /\ launches = <<>>)

C4_Witness ==
    /\ fn = "batched_backward_fp16"
    /\ param0.bias_has_grad /\ ~param0.has_attn_bias
    /\ param0.custom_mask_type \notin {0, 1, 2}
    /\ param0.K > 128
    /\ error = BiasGradMsg

\* C5: batched_backward_bp16 called with custom_mask_type in {0, 1, 2} invokes
\* exactly one instantiation, once:
\* batched_backward_masktype_attnbias_dispatched<bhalf_t, m, b> with
\* m = custom_mask_type and b = has_attn_bias; the instantiation invoked is
\* reached from exactly one (mask type, bias) pair.
C5_Bp16InvokesMatchingInstantiation ==
    (fn = "batched_backward_bp16" /\ param0.custom_mask_type \in {0, 1, 2})
        => /\ error = NoError
           /\ Len(invoked) = 1
           /\ invoked[1].name = "batched_backward_masktype_attnbias_dispatched"
           /\ invoked[1].scalar_t = "bhalf_t"
           /\ invoked[1].custom_mask_type = param0.custom_mask_type
           /\ invoked[1].has_attn_bias = param0.has_attn_bias
           /\ Cardinality({ <<q.custom_mask_type, q.has_attn_bias>> :
                              q \in { x \in BatchedBackwardParamsSet :
                                        batched_backward_bp16(x).invoked = invoked } })
                = 1

C5_Witness ==
    /\ fn = "batched_backward_bp16"
    /\ param0.custom_mask_type = 2 /\ ~param0.has_attn_bias
    /\ Len(invoked) = 1

\* (causal, bias, grad) of the extern template declarations
ExternTriples ==
    { <<i.has_causal_mask, i.has_attn_bias, i.has_bias_grad>> :
        i \in ExternTemplates }

\* C6: a call of batched_backward_fp16 that raises no error invokes exactly
\* one instantiation run_batched_backward_causalmask_attnbias_dispatched<
\* half_t, causal, bias, grad, MaxK> with causal = (custom_mask_type is 1 or
\* 2), bias = has_attn_bias and grad = bias_has_grad; the (causal, bias,
\* grad) of every instantiation invoked is one of the declared extern
\* templates, so (bias = false, grad = true) is never invoked.
C6_Fp16InvokesDeclaredInstantiation ==
    fn = "batched_backward_fp16" =>
        /\ error = NoError =>
             /\ Len(invoked) = 1
             /\ invoked[1].name = "run_batched_backward_causalmask_attnbias_dispatched"
             /\ invoked[1].scalar_t = "half_t"
             /\ invoked[1].has_causal_mask = (param0.custom_mask_type \in {1, 2})
             /\ invoked[1].has_attn_bias = param0.has_attn_bias
             /\ invoked[1].has_bias_grad = param0.bias_has_grad
        /\ \A i \in 1..Len(invoked) :
             /\ <<invoked[i].has_causal_mask, invoked[i].has_attn_bias,
                  invoked[i].has_bias_grad>> \in ExternTriples
             /\ ~(~invoked[i].has_attn_bias /\ invoked[i].has_bias_grad)

C6_Witness ==
    /\ fn = "batched_backward_fp16"
    /\ error = NoError
    /\ param0.custom_mask_type = 2
    /\ param0.has_attn_bias /\ param0.bias_has_grad
    /\ Len(invoked) = 1 /\ invoked[1].MaxK = 64

\* Two reservations of the same seed share a Philox offset.
RangesOverlap(a, b) ==
    /\ a.seed = b.seed
    /\ a.increment > 0 /\ b.increment > 0
    /\ a.offset < b.offset + b.increment
    /\ b.offset < a.offset + a.increment

\* C7: rand_uniform_int captures the generator's Philox state while it holds
\* the generator's mutex: under every interleaving of concurrent calls each
\* read-and-advance of the state is atomic, so the ranges
\* [offset, offset + increment) of any two calls do not overlap.
C7_PhiloxRangesDisjoint ==
    /\ \A i \in 1..Len(reserved) : reserved[i].holds_lock
    /\ \A i, j \in 1..Len(reserved) :
         i # j => ~RangesOverlap(reserved[i], reserved[j])

C7_Witness ==
    /\ Len(reserved) = 2
    /\ reserved[1].thread # reserved[2].thread
    /\ reserved[1].increment > 0 /\ reserved[2].increment > 0
    /\ reserved[2].offset = reserved[1].offset + reserved[1].increment
    /\ pc[reserved[1].thread] \in {"alloc", "launch", "sync", "return"}

\* The steps of rand_uniform_int in the order of the code.
RandOrder ==
    << "getCurrentHIPStream", "lock", "philox_cuda_state", "unlock",
       "launch_kernel", "hipStreamSynchronize", "return" >>

\* C8: rand_uniform_int takes its steps in the fixed order: acquire the
\* current stream, capture the Philox state under the generator lock, release
\* the lock, launch the kernel on that stream, synchronize that stream,
\* return the tensor.  The lock is not held during the launch nor during the
\* synchronization, and the tensor is not returned before the
\* synchronization has been issued.
C8_RandUniformStepOrder ==
    \A t \in Threads :
        /\ Len(log[t]) <= Len(RandOrder)
        /\ \A i \in 1..Len(log[t]) :
             /\ log[t][i].step = RandOrder[i]
             /\ log[t][i].step = "philox_cuda_state" => log[t][i].holds_lock
             /\ log[t][i].step \in {"launch_kernel", "hipStreamSynchronize", "return"}
                  => ~log[t][i].holds_lock
             /\ log[t][i].step \in {"launch_kernel", "hipStreamSynchronize"}
                  => log[t][i].stream = log[t][1].stream
             /\ log[t][i].step = "return"
                  => \E j \in 1..(i - 1) : log[t][j].step = "hipStreamSynchronize"
        /\ pc[t] \in {"launch", "sync", "return"} => mutex_ # t

C8_Witness ==
    \E t \in Threads :
        /\ Len(log[t]) = Len(RandOrder)
        /\ log[t][Len(log[t])].step = "return"
        /\ log[t][5].stream = "stream1"
        /\ \E u \in Threads : u # t /\ mutex_ = u

\* C9: the RNG seed and offset of the parameter struct reach the kernel
\* arguments: grouped forward RunWithKernel and grouped infer RunWithKernel
\* both pass (param.philox_seed, param.philox_offset) and param.dropout_prob
\* unchanged to MakeKargs, in particular when dropout is compiled in.
C9_SeedOffsetPassedToKargs ==
    fn \in {"grouped_forward_Run", "grouped_infer_Run"} =>
        /\ kargs.drop_seed_offset = <<param0.philox_seed, param0.philox_offset>>
        /\ kargs.p_drop = param0.dropout_prob

\* C10: RunWithDeviceOp of the batched infer path hands the
\* [G0 = B, G1 = num_heads, M/N, K/O] descriptors the q, k and out strides in
\* the order (s[0], s[2], s[1], s[3]) with lengths (B, num_heads, M or N, K or
\* Kv), the v strides in the order (s[0], s[2], s[3], s[1]) with lengths (B,
\* num_heads, Kv, N), and the strides of the attn-bias tensor (which exists
\* in the instantiations with has_attn_bias) unpermuted; every source stride
\* appears exactly once per tensor, and param.scale is the alpha of the Acc0
\* element op.
IsPermutationOf(d, src) ==
    \E f \in [1..4 -> 1..4] :
        /\ \A i, j \in 1..4 : i # j => f[i] # f[j]
        /\ \A i \in 1..4 : d[i] = src[f[i]]

Max(a, b) == IF a >= b THEN a ELSE b

\* C11: a call of the batched inference Run runs exactly one
\* DeviceOpInstance, with kGemm1NPerBlock one of 32, 64 and 128; when
\* max(K, Kv) <= 128 it is the smallest of them that is >= max(K, Kv); and
\* kGemm1NXdlPerWave and kCShuffleNXdlPerWavePerShuffle are
\* kGemm1NPerBlock / 32.
C11_HeadDimBucketing ==
    fn = "batched_infer_Run" =>
      /\ Len(invoked) = 1
      /\ \A i \in 1..Len(launches) :
           i = 1 /\ launches[i].kernel = invoked[1].DeviceOpInstance
      /\ LET op == invoked[1].DeviceOpInstance
             m  == Max(param0.K, param0.Kv)
         IN  /\ op.kGemm1NPerBlock \in {32, 64, 128}
             /\ m <= 128 =>
                  /\ op.kGemm1NPerBlock >= m
                  /\ \A b \in {32, 64, 128} : b >= m => op.kGemm1NPerBlock <= b
             /\ op.kGemm1NXdlPerWave = op.kGemm1NPerBlock \div 32
             /\ op.kCShuffleNXdlPerWavePerShuffle = op.kGemm1NPerBlock \div 32

\* a launched call whose two head dimensions fall into different buckets
C11_Witness ==
    /\ fn = "batched_infer_Run"
    /\ param0.K = 33 /\ param0.Kv = 1
    /\ Len(launches) = 1
    /\ launches[1].kernel.kGemm1NPerBlock = 64
    /\ launches[1].kernel.kGemm1NXdlPerWave = 2

GroupedFns == {"grouped_forward_Run", "grouped_infer_Run"}

\* The causal-mask template flag of the grouped call at hand.
CausalFlag ==
    IF fn = "grouped_forward_Run" THEN tmpl.kHasCausalMask ELSE tmpl.has_causal_mask

\* C12: every call of the grouped forward Run and of the grouped inference
\* Run launches exactly one kernel, once, on the stream it was passed and
\* raises nothing, whatever window_size, K, Kv and dropout_prob are; masking
\* is compiled into the launched kernel iff the causal-mask template flag is
\* true or window_size > 0, in both paths alike.
C12_OneLaunchMaskingDecision ==
    fn \in GroupedFns =>
      /\ error = NoError
      /\ Len(launches) = 1
      /\ launches[1].stream = strm0
      /\ launches[1].kernel.FmhaMask.IsMasking
           = (CausalFlag \/ param0.window_size > 0)

\* a forward call without causal mask whose window alone turns masking on
C12_Witness ==
    /\ fn = "grouped_forward_Run"
    /\ ~tmpl.kHasCausalMask /\ param0.window_size = 1
    /\ strm0 = "stream1"
    /\ Len(launches) = 1 /\ launches[1].stream = "stream1"
    /\ launches[1].kernel.FmhaMask.IsMasking

\* C13: the grouped forward RunWithKernel passes window_left_size =
\* window_size - 1 when window_size > 0 and -1 otherwise, and
\* window_right_size = -1 when custom_mask_type is 0 and 0 otherwise; so a
\* kernel dispatched with the causal-mask template flag true gets the right
\* window 0, and with local attention off and mask type 0 both windows
\* are -1.
C13_WindowArguments ==
    fn = "grouped_forward_Run" =>
      /\ kargs.window_left_size
           = (IF param0.window_size > 0 THEN param0.window_size - 1 ELSE -1)
      /\ kargs.window_right_size
           = (IF param0.custom_mask_type = 0 THEN -1 ELSE 0)
      /\ tmpl.kHasCausalMask => kargs.window_right_size = 0
      /\ (~(param0.window_size > 0) /\ param0.custom_mask_type = 0) =>
           (kargs.window_left_size = -1 /\ kargs.window_right_size = -1)

\* a causal call with a local window of 2
C13_Witness ==
    /\ fn = "grouped_forward_Run"
    /\ tmpl.kHasCausalMask /\ param0.window_size = 2
    /\ kargs.window_left_size = 1 /\ kargs.window_right_size = 0

\* C14: in the grouped forward and inference Run, kPadHeadDimQ is true
\* exactly when K is not a multiple of kK0BlockLength and kPadHeadDimV
\* exactly when Kv is not a multiple of kN1; both tile constants equal MaxK
\* for MaxK in {32, 64, 128, 256}; so for 1 <= K, Kv <= MaxK padding is off
\* only when the head dimension equals MaxK.
C14_HeadDimPadding ==
    fn \in GroupedFns =>
      LET kernel == launches[1].kernel
          MaxK   == tmpl.MaxK
          tile   == FmhaFwdBlockTile(MaxK)
      IN  /\ MaxK \in {32, 64, 128, 256}
          /\ kK0BlockLength(MaxK) = MaxK /\ tile[6] = MaxK
          /\ kN1(MaxK) = MaxK /\ tile[4] = MaxK
          /\ kernel.kPadHeadDimQ = (param0.K % MaxK # 0)
          /\ kernel.kPadHeadDimV = (param0.Kv % MaxK # 0)
          /\ (1 <= param0.K /\ param0.K <= MaxK) =>
               (~kernel.kPadHeadDimQ <=> param0.K = MaxK)
          /\ (1 <= param0.Kv /\ param0.Kv <= MaxK) =>
               (~kernel.kPadHeadDimV <=> param0.Kv = MaxK)

\* K is half of MaxK = 32, which is kK0 of the tile, and Kv is MaxK
C14_Witness ==
    /\ fn = "grouped_infer_Run"
    /\ tmpl.MaxK = 32 /\ param0.K = 16 /\ param0.Kv = 32
    /\ launches[1].kernel.kPadHeadDimQ
    /\ ~launches[1].kernel.kPadHeadDimV

C16_BiasPointerMatchesDescriptor ==
    fn = "batched_infer_Run" =>
      LET real ==
            /\ kargs.d_gs_ms_ns_lengths
                 = <<param0.B, param0.num_heads, param0.M, param0.N>>
            /\ kargs.d_gs_ms_ns_strides = param0.attn_bias_strides
          placeholder ==
            /\ kargs.d_gs_ms_ns_lengths = <<1, 1, 1, 1>>
            /\ kargs.d_gs_ms_ns_strides = <<0, 0, 0, 0>>
      IN  /\ real \/ placeholder
          /\ (kargs.p_acc0_bias = param0.attn_bias_ptr) <=> real
          /\ (kargs.p_acc0_bias = nullptr) <=> placeholder
          /\ \A i \in 1..Len(launches) :
               /\ tmpl.has_attn_bias = param0.has_attn_bias
               /\ (launches[i].kernel.Acc0BiasDataType # "void")
                    = param0.has_attn_bias

\* a launch with bias: the real descriptor and the bias pointer
C16_Witness ==
    /\ fn = "batched_infer_Run"
    /\ param0.has_attn_bias /\ Len(launches) = 1
    /\ kargs.p_acc0_bias = "attn_bias"
    /\ kargs.d_gs_ms_ns_lengths = <<2, 3, 4, 5>>
    /\ launches[1].kernel.Acc0BiasDataType = "half_t"

\* C19: the grouped forward and inference RunWithKernel pass
\* nhead_ratio_qk = Hq / Hkv, and for every Hq >= 1 and Hkv >= 1 the ratio r
\* passed satisfies r * Hkv = Hq, so that every query head q_head has the
\* key/value head q_head / r < Hkv.
C19_HeadRatioExact ==
    fn \in GroupedFns =>
      /\ kargs.nhead_ratio_qk = param0.Hq \div param0.Hkv
      /\ (param0.Hq >= 1 /\ param0.Hkv >= 1) =>
           /\ kargs.nhead_ratio_qk * param0.Hkv = param0.Hq
           /\ \A q_head \in 0..(param0.Hq - 1) :
                /\ kargs.nhead_ratio_qk # 0
                /\ q_head \div Max(kargs.nhead_ratio_qk, 1) < param0.Hkv

\* C20: the batched inference Run rejects no head dimension: with K or Kv
\* above 128 the last branch runs the kGemm1NPerBlock = 128 instance, and
\* only the error of the IsSupportedArgument check keeps the kernel from
\* being launched.
C20_OversizedHeadDimReachesLastBucket ==
    (fn = "batched_infer_Run" /\ (param0.K > 128 \/ param0.Kv > 128)) =>
      /\ Len(invoked) = 1
      /\ invoked[1].DeviceOpInstance.kGemm1NPerBlock = 128
      /\ Len(events) >= 5
      /\ events[5] \in {"IsSupportedArgument=true", "IsSupportedArgument=false"}
      /\ (launches = <<>>) <=> (events[5] = "IsSupportedArgument=false")
      /\ (launches = <<>>) <=>
           (error = GetTypeString(invoked[1].DeviceOpInstance)
                      \o " does not support this problem")
      /\ launches # <<>> =>
           /\ error = NoError
           /\ launches[1].kernel.kGemm1NPerBlock = 128

\* K = 129 with a supported argument: the 128 instance is launched
C20_Witness ==
    /\ fn = "batched_infer_Run"
    /\ param0.K = 129 /\ param0.Kv = 1
    /\ error = NoError
    /\ Len(launches) = 1 /\ launches[1].kernel.kGemm1NPerBlock = 128

\* Statements of rand_uniform_int after the increment has been computed.
AfterIncrement == {"philox_advance", "unlock", "alloc", "launch", "sync", "return"}

\* C17: the increment rand_uniform_int reserves from the generator equals
\* the number of elements B * num_heads * M * N of the tensor for every
\* shape: the int product does not wrap around modulo 2^32 and is never
\* negative.
C17_IncrementIsElementCount ==
    \A t \in Threads :
      pc[t] \in AfterIncrement =>
        /\ incr[t] >= 0
        /\ UInt64OfInt(incr[t]) = ExactProduct(shape[t], 4)

====
